---- MODULE Spec2Model ----
(***************************************************************************)
(* Model of united_payment/client.py: the UnitedPaymentAPI client.         *)
(*                                                                         *)
(* One client object (token, token_expiry), a wall clock (now), the        *)
(* gateway as a nondeterministic responder, and callers that run the       *)
(* client's methods one statement group at a time.  The position of every  *)
(* caller inside __init__/make_request/pay_by_link_qr_code/login is kept   *)
(* in caller[t].pc.  Spec is the sequential use (one caller), SpecConc two  *)
(* callers on one constructed client, SpecParse parse_response over many   *)
(* bodies; response bodies are sequences of one-character strings.         *)
(***************************************************************************)
EXTENDS Integers, Sequences, FiniteSets, TLC

(* ------------------------------ bounds -------------------------------- *)
MaxTime == 116          \* the clock stops ticking here
MaxCalls == 2           \* operations dispatched after construction
MaxLines == 3           \* lines of a response body given to parse_response

(* ------------------------- program constants -------------------------- *)
\* variant of TokenMinutes: the server-side lifetime, without the margin
TokenMinutes_hour == 57 + 3

TokenMinutes == 57      \* timedelta(minutes=57)

StatusOK == 200         \* response.status_code == 200

None == "<None>"        \* Python None for token values
NoExpiry == -1          \* Python None for token_expiry
NoHeader == "<no x-auth-token>"

Callers == {1, 2}
Main == 1               \* the caller that constructs the client

\* the clock is observed at instants 28 or 29 minutes apart, so that
\* 56, 57 and 58 minutes after a login are all reachable
TickSteps == {TokenMinutes \div 2, TokenMinutes \div 2 + 1}

VARIABLES token, token_expiry, now, sent, constructed, ncalls, caller, hist,
          last_login

vars == <<token, token_expiry, now, sent, constructed, ncalls, caller, hist,
          last_login>>

(* ------------------------------ gateway ------------------------------- *)
\* what response.json().get('token') yields for the 200 bodies of /auth/:
\* a token string, the empty string, or None when the key is absent
AuthTokens == {"tokA", "tokB", "", None}

AuthResponses ==
    { [status |-> StatusOK, json |-> "object", token |-> x] : x \in AuthTokens }
      \cup { [status |-> StatusOK, json |-> "invalid", token |-> None],
             [status |-> 401, json |-> "object", token |-> None] }

NoResponse == [status |-> 0, json |-> "invalid", token |-> None]

\* error_codes = UnitedPaymentAPIException.error_codes
error_codes == [c \in {"100", "101"} |->
                  IF c = "100" THEN "Invalid request" ELSE "Invalid amount"]

\* bodies of operation responses: the text and what response.json() gives
BodyLines ==
    [text |-> <<"a", ":", " ", "1", "\n", "b">>,
     json |-> "invalid", fields |-> <<>>]
BodyEmpty ==
    [text |-> <<>>, json |-> "invalid", fields |-> <<>>]
BodyErrorCode ==
    [text |-> <<"{", "\"", "e", "r", "r", "o", "r", "C", "o", "d", "e", "\"",
                ":", " ", "\"", "1", "0", "0", "\"", "}">>,
     json |-> "object", fields |-> [errorCode |-> "100"]]
BodyError ==
    [text |-> <<"{", "\"", "e", "r", "r", "o", "r", "\"",
                ":", " ", "\"", "1", "0", "1", "\"", "}">>,
     json |-> "object", fields |-> [error |-> "101"]]
BodyUnknownCode ==
    [text |-> <<"{", "\"", "e", "r", "r", "o", "r", "C", "o", "d", "e", "\"",
                ":", " ", "\"", "9", "9", "9", "\"", "}">>,
     json |-> "object", fields |-> [errorCode |-> "999"]]

OpBodies == {BodyLines, BodyEmpty, BodyErrorCode, BodyError, BodyUnknownCode}

OpResponses == { [status |-> s, body |-> b] : s \in {StatusOK, 400}, b \in OpBodies }

NoOpResponse == [status |-> 0, body |-> BodyEmpty]

(* ----------------------------- operations ----------------------------- *)
\* the operation builders (all but pay_by_link_qr_code end in make_request)
\* and make_request itself called with a method of the caller's choice
Operations ==
    { [name |-> "reversal", endpoint |-> "/transactions/reverse",
       method |-> "POST", direct |-> FALSE],
      [name |-> "get_agreement_detail", endpoint |-> "/aggrement/GetAggrementDetail",
       method |-> "GET", direct |-> FALSE],
      [name |-> "pay_by_link_qr_code", endpoint |-> "/transactions/create-pay-link",
       method |-> "POST", direct |-> TRUE],
      [name |-> "make_request", endpoint |-> "/transactions/refund",
       method |-> "post", direct |-> FALSE],
      [name |-> "make_request", endpoint |-> "/transactions/refund",
       method |-> "PUT", direct |-> FALSE] }

NoOperation == [name |-> "", endpoint |-> "", method |-> "", direct |-> FALSE]

\* variant of Upper: the method is compared as given
Upper_identity(m) == m

\* method.upper()
Upper(m) == IF m = "post" THEN "POST" ELSE IF m = "get" THEN "GET" ELSE m

AuthRequest == [url |-> "/auth/", method |-> "POST", hdr |-> NoHeader]

OpRequest(o, h) == [url |-> o.endpoint, method |-> Upper(o.method), hdr |-> h]

(* --------------------------- session manager -------------------------- *)
\* variants of is_token_expired: the comparison reversed, the comparison
\* strict, and no comparison at all
is_token_expired_reversed ==
    IF token_expiry = NoExpiry THEN TRUE ELSE now <= token_expiry

is_token_expired_strict ==
    IF token_expiry = NoExpiry THEN TRUE ELSE now > token_expiry

is_token_expired_always == TRUE

\* is_token_expired
is_token_expired ==
    IF token_expiry = NoExpiry THEN TRUE ELSE now >= token_expiry

\* `not self.token`
NotToken(tok) == tok = None \/ tok = ""

\* variant of Bearer: the bare token
Bearer_no_prefix(tok) == IF tok = None THEN "None" ELSE tok

\* f'Bearer {self.token}'
Bearer(tok) == IF tok = None THEN "Bearer None" ELSE "Bearer " \o tok

\* variant of HeaderToken: the token the call found when it was dispatched
HeaderToken_stale(t) == hist[t].token0

\* the value set_headers puts after 'Bearer ': self.token, read when the
\* headers are built
HeaderToken(t) == token

\* variant of LoginSucceeded: the status is not looked at
LoginSucceeded_any(r) == TRUE

\* response.status_code == 200 in login
LoginSucceeded(r) == r.status = StatusOK

(* ------------------------- response normalizer ------------------------ *)
IsSpace(c) == c \in {" ", "\n", "\t", "\r"}

RECURSIVE LStrip(_)
LStrip(s) == IF s # <<>> /\ IsSpace(Head(s)) THEN LStrip(Tail(s)) ELSE s

RECURSIVE RStrip(_)
RStrip(s) ==
    IF s # <<>> /\ IsSpace(s[Len(s)]) THEN RStrip(SubSeq(s, 1, Len(s) - 1)) ELSE s

\* str.strip()
strip(s) == RStrip(LStrip(s))

\* str.split('\n')
RECURSIVE split_newline(_)
split_newline(s) ==
    IF \E i \in 1..Len(s) : s[i] = "\n"
    THEN LET i == CHOOSE i \in 1..Len(s) :
                      s[i] = "\n" /\ \A j \in 1..(i - 1) : s[j] # "\n"
         IN <<SubSeq(s, 1, i - 1)>> \o split_newline(SubSeq(s, i + 1, Len(s)))
    ELSE <<s>>

SepAt(line, i) == i + 1 <= Len(line) /\ line[i] = ":" /\ line[i + 1] = " "

\* ': ' in line
HasSep(line) == \E i \in 1..Len(line) : SepAt(line, i)

\* line.split(': ', 1)
split_once(line) ==
    LET i == CHOOSE i \in 1..Len(line) :
                 SepAt(line, i) /\ \A j \in 1..(i - 1) : ~SepAt(line, j)
    IN <<SubSeq(line, 1, i - 1), SubSeq(line, i + 2, Len(line))>>

\* variant of StoreItem: a key that is already present keeps its value
StoreItem_keep_first(d, k, v) ==
    IF k \in DOMAIN d THEN d
    ELSE [x \in DOMAIN d \cup {k} |-> IF x = k THEN v ELSE d[x]]

\* parsed_result[k] = v
StoreItem(d, k, v) == [x \in DOMAIN d \cup {k} |-> IF x = k THEN v ELSE d[x]]

\* the loop body of parse_response for one line
ParseLine(d, line) ==
    IF HasSep(line)
    THEN LET kv == split_once(line) IN StoreItem(d, strip(kv[1]), strip(kv[2]))
    ELSE d

RECURSIVE ParseLines(_, _)
ParseLines(lines, d) ==
    IF lines = <<>> THEN d ELSE ParseLines(Tail(lines), ParseLine(d, Head(lines)))

\* parse_response, applied to response.text
parse_response(text) == ParseLines(split_newline(strip(text)), <<>>)

\* dict.get(k)
Get(d, k) == IF k \in DOMAIN d THEN d[k] ELSE None

\* a or b
Or(a, b) == IF a = None \/ a = "" THEN b ELSE a

\* `response_data is dict`: identity of the parsed value with the type
\* object dict, which no value returned by response.json() has
response_data_is_dict(body) == FALSE

\* variant of handle_response_errors: the code of a JSON object body is
\* looked up whatever the status
handle_response_errors_any_status(r) ==
    IF r.body.json = "object"
         /\ Or(Get(r.body.fields, "errorCode"), Get(r.body.fields, "error"))
              \in DOMAIN error_codes
    THEN [outcome |-> "raise", msg |-> "Error"]
    ELSE [outcome |-> "return", msg |-> ""]

\* variant of handle_response_errors: the ValueError of response.json() is
\* not caught
handle_response_errors_no_except(r) ==
    IF r.status # StatusOK /\ r.body.json = "invalid"
    THEN [outcome |-> "raise", msg |-> "Failed to process response"]
    ELSE [outcome |-> "return", msg |-> ""]

\* handle_response_errors: "raise" with the message, "print" or "return"
handle_response_errors(r) ==
    IF r.status # StatusOK
    THEN IF r.body.json = "invalid"
         THEN [outcome |-> "print", msg |-> ""]
         ELSE IF response_data_is_dict(r.body)
              THEN LET error_code == Or(Get(r.body.fields, "errorCode"),
                                        Get(r.body.fields, "error"))
                   IN IF error_code \in DOMAIN error_codes
                      THEN [outcome |-> "raise",
                            msg |-> "Error " \o error_code \o ": "
                                      \o error_codes[error_code]]
                      ELSE [outcome |-> "return", msg |-> ""]
              ELSE [outcome |-> "return", msg |-> ""]
    ELSE [outcome |-> "return", msg |-> ""]

(* ------------------------------- state -------------------------------- *)
CtorOp == [name |-> "__init__", endpoint |-> "", method |-> "", direct |-> FALSE]

NoExc == [type |-> "", msg |-> ""]
NoRet == [kind |-> "none", val |-> <<>>]

IdleCaller ==
    [pc |-> "idle", ra |-> "", op |-> NoOperation, hdr |-> NoHeader,
     authResp |-> NoResponse, opResp |-> NoOpResponse, exc |-> NoExc, ret |-> NoRet]

\* what a call saw when it was dispatched and what it has done since
NoHist ==
    [token0 |-> None, expiry0 |-> NoExpiry, start |-> 0, nauth |-> 0, nops |-> 0,
     logins |-> 0, loginTok |-> None, transport |-> FALSE,
     failed0 |-> FALSE, seen |-> NoExpiry]

\* the most recent successful login (the token it got and when it stored
\* the expiry) and how the most recent attempt ended
NoLogin == [tok |-> None, at |-> NoExpiry, outcome |-> "none"]

\* __init__ up to `self.login()`
Init ==
    /\ token = None
    /\ token_expiry = NoExpiry
    /\ now = 0
    /\ sent = <<>>
    /\ constructed = FALSE
    /\ ncalls = 0
    /\ caller = [t \in Callers |->
                   IF t = Main THEN [IdleCaller EXCEPT !.pc = "ctor", !.op = CtorOp]
                   ELSE IdleCaller]
    /\ hist = [t \in Callers |-> NoHist]
    /\ last_login = NoLogin

\* variant of RaiseTo: the exception is swallowed where login was called
\* and the method goes on
RaiseTo_swallow(t, type, msg) ==
    [caller EXCEPT ![t].pc = IF caller[t].ra = "" THEN "done" ELSE caller[t].ra,
                   ![t].exc = [type |-> type, msg |-> msg]]

\* an exception leaves the running method: out of __init__ there is no
\* client, out of an operation the caller gets it
RaiseTo(t, type, msg) ==
    [caller EXCEPT ![t].pc = IF caller[t].op.name = "__init__" THEN "dead" ELSE "done",
                   ![t].exc = [type |-> type, msg |-> msg]]

\* datetime.now() moves on between any two steps
Tick ==
    /\ \E d \in TickSteps : now + d <= MaxTime /\ now' = now + d
    /\ UNCHANGED <<token, token_expiry, sent, constructed, ncalls, caller, hist, last_login>>

\* variant of CtorLogin: __init__ without the call of login
CtorLogin_lazy(t) ==
    /\ caller[t].pc = "ctor"
    /\ caller' = [caller EXCEPT ![t].pc = "ctor_ret", ![t].ra = "ctor_ret"]
    /\ UNCHANGED <<token, token_expiry, now, sent, constructed, ncalls, hist, last_login>>

\* self.login() at the end of __init__
CtorLogin(t) ==
    /\ caller[t].pc = "ctor"
    /\ caller' = [caller EXCEPT ![t].pc = "login_send", ![t].ra = "ctor_ret"]
    /\ UNCHANGED <<token, token_expiry, now, sent, constructed, ncalls, hist, last_login>>

\* __init__ returns: the client exists
CtorReturn(t) ==
    /\ caller[t].pc = "ctor_ret"
    /\ constructed' = TRUE
    /\ caller' = [caller EXCEPT ![t] = IdleCaller]
    /\ UNCHANGED <<token, token_expiry, now, sent, ncalls, hist, last_login>>

\* login: requests.post(login_url, ...) goes out
LoginSend(t) ==
    /\ caller[t].pc = "login_send"
    /\ sent' = Append(sent, AuthRequest)
    /\ caller' = [caller EXCEPT ![t].pc = "login_wait"]
    /\ hist' = [hist EXCEPT ![t].nauth = @ + 1]
    /\ UNCHANGED <<token, token_expiry, now, constructed, ncalls, last_login>>

\* login: requests.post returns a response
LoginRecv(t) ==
    /\ caller[t].pc = "login_wait"
    /\ \E r \in AuthResponses :
          caller' = [caller EXCEPT ![t].pc = "login_resp", ![t].authResp = r]
    /\ UNCHANGED <<token, token_expiry, now, sent, constructed, ncalls, hist, last_login>>

\* login: requests.post raises (connection refused, timeout, DNS); login
\* has no try, and its callers call it outside theirs
LoginTransportFail(t) ==
    /\ caller[t].pc = "login_wait"
    /\ caller' = RaiseTo(t, "RequestException", "connection failed")
    /\ hist' = [hist EXCEPT ![t].transport = TRUE]
    /\ last_login' = [last_login EXCEPT !.outcome = "failed"]
    /\ UNCHANGED <<token, token_expiry, now, sent, constructed, ncalls>>

\* login: the status test, then self.token = response.json().get('token')
LoginHandle(t) ==
    /\ caller[t].pc = "login_resp"
    /\ LET r == caller[t].authResp IN
         IF LoginSucceeded(r)
         THEN IF r.json = "invalid"
              THEN /\ caller' = RaiseTo(t, "JSONDecodeError", "not JSON")
                   /\ last_login' = [last_login EXCEPT !.outcome = "failed"]
                   /\ UNCHANGED <<token, hist>>
              ELSE /\ token' = r.token
                   /\ caller' = [caller EXCEPT ![t].pc = "login_expiry"]
                   /\ hist' = [hist EXCEPT ![t].loginTok = r.token]
                   /\ UNCHANGED last_login
         ELSE /\ caller' = RaiseTo(t, "UnitedPaymentAPIException",
                                   "Failed to login and retrieve token.")
              /\ last_login' = [last_login EXCEPT !.outcome = "failed"]
              /\ UNCHANGED <<token, hist>>
    /\ UNCHANGED <<token_expiry, now, sent, constructed, ncalls>>

\* login: self.token_expiry = datetime.now() + timedelta(minutes=57)
LoginExpiry(t) ==
    /\ caller[t].pc = "login_expiry"
    /\ token_expiry' = now + TokenMinutes
    /\ caller' = [caller EXCEPT ![t].pc = caller[t].ra]
    /\ hist' = [hist EXCEPT ![t].logins = @ + 1]
    /\ last_login' = [tok |-> caller[t].authResp.token, at |-> now, outcome |-> "ok"]
    /\ UNCHANGED <<token, now, sent, constructed, ncalls>>

\* an operation is called on the constructed client: the operation builders
\* enter make_request, pay_by_link_qr_code starts at set_headers
Begin(t, o) ==
    /\ caller[t].pc = "idle"
    /\ constructed
    /\ ncalls < MaxCalls
    /\ ncalls' = ncalls + 1
    /\ caller' = [caller EXCEPT ![t] =
                    [IdleCaller EXCEPT !.pc = IF o.direct THEN "set_headers"
                                              ELSE "update_token",
                                       !.op = o]]
    /\ hist' = [hist EXCEPT ![t] =
                  [NoHist EXCEPT !.token0 = token, !.expiry0 = token_expiry,
                                 !.start = now,
                                 !.failed0 = (last_login.outcome = "failed")]]
    /\ UNCHANGED <<token, token_expiry, now, sent, constructed, last_login>>

\* make_request: self.update_token()
UpdateToken(t) ==
    /\ caller[t].pc = "update_token"
    /\ caller' = IF is_token_expired
                 THEN [caller EXCEPT ![t].pc = "login_send", ![t].ra = "set_headers"]
                 ELSE [caller EXCEPT ![t].pc = "set_headers"]
    /\ hist' = [hist EXCEPT ![t].seen = token_expiry]
    /\ UNCHANGED <<token, token_expiry, now, sent, constructed, ncalls, last_login>>

\* set_headers: if not self.token
SetHeaders(t) ==
    /\ caller[t].pc = "set_headers"
    /\ caller' = [caller EXCEPT ![t].pc = IF NotToken(token) THEN "hdr_update_token"
                                          ELSE "build_headers"]
    /\ UNCHANGED <<token, token_expiry, now, sent, constructed, ncalls, hist, last_login>>

\* set_headers: self.update_token()
HdrUpdateToken(t) ==
    /\ caller[t].pc = "hdr_update_token"
    /\ caller' = IF is_token_expired
                 THEN [caller EXCEPT ![t].pc = "login_send", ![t].ra = "build_headers"]
                 ELSE [caller EXCEPT ![t].pc = "build_headers"]
    /\ hist' = [hist EXCEPT ![t].seen = token_expiry]
    /\ UNCHANGED <<token, token_expiry, now, sent, constructed, ncalls, last_login>>

\* set_headers: the returned dictionary
BuildHeaders(t) ==
    /\ caller[t].pc = "build_headers"
    /\ caller' = [caller EXCEPT ![t].pc = "send", ![t].hdr = Bearer(HeaderToken(t))]
    /\ UNCHANGED <<token, token_expiry, now, sent, constructed, ncalls, hist, last_login>>

\* requests.get / requests.post of the operation goes out; in make_request
\* any other method assigns no response and line 165 reads an unbound local
Send(t) ==
    /\ caller[t].pc = "send"
    /\ LET o == caller[t].op IN
         IF o.direct \/ Upper(o.method) \in {"GET", "POST"}
         THEN /\ sent' = Append(sent, OpRequest(o, caller[t].hdr))
              /\ caller' = [caller EXCEPT ![t].pc = "op_wait"]
              /\ hist' = [hist EXCEPT ![t].nops = @ + 1]
         ELSE /\ caller' = RaiseTo(t, "UnboundLocalError", "response")
              /\ UNCHANGED <<sent, hist>>
    /\ UNCHANGED <<token, token_expiry, now, constructed, ncalls, last_login>>

\* the operation's response arrives
OpRecv(t) ==
    /\ caller[t].pc = "op_wait"
    /\ \E r \in OpResponses :
          caller' = [caller EXCEPT ![t].pc = "op_resp", ![t].opResp = r]
    /\ UNCHANGED <<token, token_expiry, now, sent, constructed, ncalls, hist, last_login>>

\* the operation's request raises requests.RequestException: make_request
\* catches it and raises its own, pay_by_link_qr_code has no try
OpTransportFail(t) ==
    /\ caller[t].pc = "op_wait"
    /\ caller' = IF caller[t].op.direct
                 THEN RaiseTo(t, "RequestException", "connection failed")
                 ELSE RaiseTo(t, "UnitedPaymentAPIException",
                              "Request failed: connection failed")
    /\ hist' = [hist EXCEPT ![t].transport = TRUE]
    /\ UNCHANGED <<token, token_expiry, now, sent, constructed, ncalls, last_login>>

\* handle_response_errors(response), then the return value:
\* parse_response(response) in make_request, response.text in
\* pay_by_link_qr_code
OpHandle(t) ==
    /\ caller[t].pc = "op_resp"
    /\ LET r == caller[t].opResp
           h == handle_response_errors(r)
       IN caller' =
            IF h.outcome = "raise"
            THEN RaiseTo(t, "UnitedPaymentAPIException", h.msg)
            ELSE [caller EXCEPT
                    ![t].pc = "done",
                    ![t].ret = IF caller[t].op.direct
                               THEN [kind |-> "text", val |-> r.body.text]
                               ELSE [kind |-> "dict",
                                     val |-> parse_response(r.body.text)]]
    /\ UNCHANGED <<token, token_expiry, now, sent, constructed, ncalls, hist, last_login>>

\* the call is over; the caller may dispatch the next one.  The observer
\* of the transport starts a new log: sent holds the requests since the
\* last operation returned (since construction, for the first operation)
Return(t) ==
    /\ caller[t].pc = "done"
    /\ caller' = [caller EXCEPT ![t] = IdleCaller]
    /\ hist' = [hist EXCEPT ![t] = NoHist]
    /\ sent' = <<>>
    /\ UNCHANGED <<token, token_expiry, now, constructed, ncalls, last_login>>

Step(t) ==
    \/ CtorLogin(t)
    \/ CtorReturn(t)
    \/ LoginSend(t)
    \/ LoginRecv(t)
    \/ LoginTransportFail(t)
    \/ LoginHandle(t)
    \/ LoginExpiry(t)
    \/ \E o \in Operations : Begin(t, o)
    \/ UpdateToken(t)
    \/ SetHeaders(t)
    \/ HdrUpdateToken(t)
    \/ BuildHeaders(t)
    \/ Send(t)
    \/ OpRecv(t)
    \/ OpTransportFail(t)
    \/ OpHandle(t)
    \/ Return(t)

\* one logical thread of control per client instance
Next == Tick \/ Step(Main)

Spec == Init /\ [][Next]_vars

TypeOK ==
    /\ token \in AuthTokens
    /\ token_expiry \in {NoExpiry} \cup (0..(MaxTime + TokenMinutes))
    /\ now \in 0..MaxTime
    /\ ncalls \in 0..MaxCalls
    /\ constructed \in BOOLEAN
    /\ \A t \in Callers : caller[t].op \in Operations \cup {NoOperation, CtorOp}

(* ------------------------------ properties --------------------------- *)
\* a caller is inside an operation that goes through make_request
InMakeRequest(t) == caller[t].op \in Operations /\ ~caller[t].op.direct

\* the token was expired when the call was dispatched
ExpiredAtDispatch(t) ==
    hist[t].expiry0 = NoExpiry \/ hist[t].start >= hist[t].expiry0

\* C1: while the clock is strictly before the token_expiry a make_request
\* call found at dispatch, the call has sent no /auth/ request and token and
\* token_expiry are what the call found, in every call
TokenReuse ==
    \A t \in Callers :
       (InMakeRequest(t) /\ hist[t].expiry0 # NoExpiry /\ now < hist[t].expiry0)
          => /\ hist[t].nauth = 0
             /\ token = hist[t].token0
             /\ token_expiry = hist[t].expiry0

\* a second make_request call in a row has sent its request on the token it
\* found
TokenReuseWitness ==
    \E t \in Callers :
       /\ InMakeRequest(t) /\ caller[t].pc = "done" /\ ncalls = 2
       /\ now < hist[t].expiry0 /\ hist[t].nops = 1 /\ hist[t].nauth = 0

\* C2: no operation request has been sent by a call that was dispatched at
\* or after token_expiry and has not attempted a login
RefreshCheckedOnEveryCall ==
    \A t \in Callers :
       (caller[t].op \in Operations /\ hist[t].nops > 0 /\ ExpiredAtDispatch(t))
          => hist[t].nauth > 0

\* C3: update_token logs in exactly when token_expiry is absent or
\* now >= token_expiry, the instant now = token_expiry included
InclusiveExpiry ==
    [][\A t \in Callers :
          (caller[t].pc \in {"update_token", "hdr_update_token"}
             /\ caller'[t].pc # caller[t].pc)
            => ((caller'[t].pc = "login_send")
                  <=> (token_expiry = NoExpiry \/ now >= token_expiry))]_vars

\* a call dispatched at the expiry instant is about to send /auth/
InclusiveExpiryWitness ==
    \E t \in Callers :
       /\ InMakeRequest(t) /\ caller[t].pc = "login_send"
       /\ now = token_expiry /\ hist[t].start = now

\* C4: when a make_request call dispatched on an expired token has sent its
\* operation request, the request before it is the /auth/ request of this
\* call, that login was answered and stored its token, and the operation
\* request carries the token that login returned
OrderingOnExpiry ==
    \A t \in Callers :
       (InMakeRequest(t) /\ hist[t].nops > 0 /\ ExpiredAtDispatch(t))
          => /\ hist[t].nauth >= 1
             /\ hist[t].logins >= 1
             /\ caller[t].authResp.status = StatusOK
             /\ Len(sent) >= 2
             /\ sent[Len(sent) - 1] = AuthRequest
             /\ sent[Len(sent)] =
                  OpRequest(caller[t].op, Bearer(hist[t].loginTok))

\* 58 minutes after the last login the operation went out on a new token
OrderingOnExpiryWitness ==
    \E t \in Callers :
       /\ InMakeRequest(t) /\ caller[t].pc = "op_wait"
       /\ hist[t].start = hist[t].expiry0 + 1
       /\ hist[t].loginTok # hist[t].token0
       /\ hist[t].token0 = "tokA" /\ hist[t].loginTok = "tokB"

\* C5: login on a non-200 status raises UnitedPaymentAPIException and
\* leaves token and token_expiry as they were
FailedLoginKeepsState ==
    [][\A t \in Callers :
          (caller[t].pc = "login_resp" /\ caller[t].authResp.status # StatusOK
             /\ caller'[t].pc # caller[t].pc)
            => /\ token' = token
               /\ token_expiry' = token_expiry
               /\ caller'[t].pc \in {"done", "dead"}
               /\ caller'[t].exc.type = "UnitedPaymentAPIException"]_vars

\* a refresh of an expired token failed and the call ended with the old
\* token state
FailedLoginKeepsStateWitness ==
    \E t \in Callers :
       /\ caller[t].pc = "done" /\ caller[t].authResp.status = 401
       /\ caller[t].exc.type = "UnitedPaymentAPIException"
       /\ token = "tokA" /\ token = hist[t].token0
       /\ token_expiry = hist[t].expiry0 /\ now >= token_expiry

\* the code a JSON object body carries: errorCode, else error
BodyCode(b) == Or(Get(b.fields, "errorCode"), Get(b.fields, "error"))

\* C6: a call whose response has a status other than 200 and a JSON object
\* body with a code of the error catalog ends in UnitedPaymentAPIException
\* with the catalog message and returns nothing
KnownErrorCodeRaises ==
    \A t \in Callers :
       (caller[t].pc = "done" /\ caller[t].opResp.status \notin {0, StatusOK}
          /\ caller[t].opResp.body.json = "object"
          /\ BodyCode(caller[t].opResp.body) \in DOMAIN error_codes)
         => /\ caller[t].exc.type = "UnitedPaymentAPIException"
            /\ caller[t].exc.msg =
                 "Error " \o BodyCode(caller[t].opResp.body) \o ": "
                   \o error_codes[BodyCode(caller[t].opResp.body)]
            /\ caller[t].ret.kind = "none"

\* C7: an operation call in which the transport failed ends in
\* UnitedPaymentAPIException
TransportFailuresWrapped ==
    \A t \in Callers :
       (caller[t].pc = "done" /\ hist[t].transport)
          => caller[t].exc.type = "UnitedPaymentAPIException"

\* C8: once a login got status 200 and stored its token, the token is a
\* non-empty string, and so is the token in every operation request
NonEmptyToken ==
    /\ \A t \in Callers :
          (caller[t].authResp.status = StatusOK /\ hist[t].logins >= 1)
             => ~NotToken(token)
    /\ \A i \in DOMAIN sent :
          sent[i].url # "/auth/" => sent[i].hdr \notin {Bearer(None), Bearer("")}

\* C9: the first operation builder called on a new client, over before the
\* token of the construction expires, leaves exactly two requests on the
\* wire: POST /auth/, then the operation's request
EndToEndSequence ==
    \A t \in Callers :
       (caller[t].pc = "done" /\ ncalls = 1 /\ caller[t].op \in Operations
          /\ caller[t].op.name # "make_request" /\ now < hist[t].expiry0)
         => /\ Len(sent) = 2
            /\ sent[1] = AuthRequest
            /\ sent[2].url = caller[t].op.endpoint
            /\ sent[2].method = caller[t].op.method

\* reversal right after construction returned a mapping
EndToEndSequenceWitness ==
    \E t \in Callers :
       /\ caller[t].pc = "done" /\ ncalls = 1 /\ caller[t].op.name = "reversal"
       /\ now = 0 /\ caller[t].ret.kind = "dict"
       /\ sent = <<AuthRequest, OpRequest(caller[t].op, Bearer(token))>>

(* --------------------- parse_response on its own ---------------------- *)
\* lines a response body is made of: entries, a repeated key, a line
\* without the separator, an empty line, blanks to trim, a colon without
\* the blank, two separators, an empty key, an empty value
Fragments ==
    { <<"a", ":", " ", "1">>,
      <<"a", ":", " ", "2">>,
      <<"b", ":", " ", "1">>,
      <<"b">>,
      <<>>,
      <<" ", "a", " ", ":", " ", "1", "\r">>,
      <<"a", ":", "1">>,
      <<"a", ":", " ", "b", ":", " ", "c">>,
      <<":", " ", "1">>,
      <<"a", ":", " ">> }

\* '\n'.join(lines)
RECURSIVE Join(_)
Join(lines) ==
    IF lines = <<>> THEN <<>>
    ELSE IF Len(lines) = 1 THEN lines[1]
    ELSE lines[1] \o <<"\n">> \o Join(Tail(lines))

ParseTexts == { Join(ls) : ls \in UNION { [1..n -> Fragments] : n \in 0..MaxLines } }

\* a reversal has been sent on a fresh client and the gateway has answered
\* with one of the bodies
InitParse ==
    /\ token = "tokA"
    /\ token_expiry = TokenMinutes
    /\ now = 0
    /\ constructed = TRUE
    /\ ncalls = 1
    /\ \E o \in {x \in Operations : x.name = "reversal"}, b \in ParseTexts,
          st \in {StatusOK, 400} :
          /\ sent = <<AuthRequest, OpRequest(o, Bearer("tokA"))>>
          /\ caller = [t \in Callers |->
                         IF t = Main
                         THEN [IdleCaller EXCEPT
                                 !.pc = "op_resp", !.op = o, !.hdr = Bearer("tokA"),
                                 !.opResp = [status |-> st,
                                             body |-> [text |-> b, json |-> "invalid",
                                                       fields |-> <<>>]]]
                         ELSE IdleCaller]
    /\ hist = [t \in Callers |->
                 IF t = Main
                 THEN [NoHist EXCEPT !.token0 = "tokA", !.expiry0 = TokenMinutes,
                                     !.nops = 1]
                 ELSE NoHist]
    /\ last_login = [tok |-> "tokA", at |-> 0, outcome |-> "ok"]

NextParse == OpHandle(Main)

SpecParse == InitParse /\ [][NextParse]_vars

\* the body without its leading and trailing white space
Trimmed(s) ==
    LET ink == { i \in 1..Len(s) : ~IsSpace(s[i]) }
    IN IF ink = {} THEN <<>>
       ELSE SubSeq(s, CHOOSE i \in ink : \A j \in ink : i <= j,
                      CHOOSE i \in ink : \A j \in ink : i >= j)

\* the lines of s: the stretches between consecutive newlines
LinesOf(s) ==
    LET nl == { i \in 1..Len(s) : s[i] = "\n" }
        nth(k) == IF k = 0 THEN 0
                  ELSE IF k = Cardinality(nl) + 1 THEN Len(s) + 1
                  ELSE CHOOSE p \in nl : Cardinality({ q \in nl : q < p }) = k - 1
    IN [k \in 1..(Cardinality(nl) + 1) |-> SubSeq(s, nth(k - 1) + 1, nth(k) - 1)]

\* where ': ' occurs in a line
SepPlaces(line) ==
    { i \in 1..(Len(line) - 1) : SubSeq(line, i, i + 1) = <<":", " ">> }

FirstPlace(line) == CHOOSE i \in SepPlaces(line) : \A j \in SepPlaces(line) : i <= j

KeyOf(line) == Trimmed(SubSeq(line, 1, FirstPlace(line) - 1))

ValueOf(line) == Trimmed(SubSeq(line, FirstPlace(line) + 2, Len(line)))

\* the mapping the lines of a body stand for: only lines with ': ' count,
\* and the last line of a key gives its value
MappingOf(text) ==
    LET lines == LinesOf(Trimmed(text))
        kept == { k \in DOMAIN lines : SepPlaces(lines[k]) # {} }
        last(key) == CHOOSE k \in kept :
                        /\ KeyOf(lines[k]) = key
                        /\ \A m \in kept : KeyOf(lines[m]) = key => m <= k
    IN [key \in { KeyOf(lines[k]) : k \in kept } |-> ValueOf(lines[last(key)])]

\* C10: what make_request returns is the mapping of the body's lines: the
\* body trimmed and split at newlines, the lines without ': ' dropped, every
\* other line split at its first ': ' into a trimmed key and a trimmed
\* value, a later line of a key overriding an earlier one
LineParserResult ==
    \A t \in Callers :
       (caller[t].pc = "done" /\ caller[t].ret.kind = "dict")
          => LET m == MappingOf(caller[t].opResp.body.text)
             IN /\ DOMAIN caller[t].ret.val = DOMAIN m
                /\ \A k \in DOMAIN m : caller[t].ret.val[k] = m[k]

\* a body with a dropped line between two lines of the same key
LineParserResultWitness ==
    \E t \in Callers :
       /\ caller[t].pc = "done" /\ caller[t].ret.kind = "dict"
       /\ caller[t].opResp.body.text =
            <<"a", ":", " ", "1", "\n", "b", "\n", "a", ":", " ", "2">>
       /\ DOMAIN caller[t].ret.val = {<<"a">>}
       /\ caller[t].ret.val[<<"a">>] = <<"2">>

\* a make_request call is over and its operation request was answered
Answered(t) ==
    InMakeRequest(t) /\ caller[t].pc = "done" /\ caller[t].opResp.status # 0

\* C11: a make_request call whose response has status 200 ends without an
\* exception and returns a mapping, whatever the body
GracefulDegradation ==
    \A t \in Callers :
       (Answered(t) /\ caller[t].opResp.status = StatusOK)
          => /\ caller[t].exc = NoExc
             /\ caller[t].ret.kind = "dict"
             /\ DOMAIN caller[t].ret.val =
                  DOMAIN MappingOf(caller[t].opResp.body.text)

\* an empty 200 body gave the empty mapping
GracefulDegradationWitness ==
    \E t \in Callers :
       /\ Answered(t) /\ caller[t].opResp = [status |-> StatusOK, body |-> BodyEmpty]
       /\ caller[t].exc = NoExc /\ caller[t].ret.kind = "dict"
       /\ DOMAIN caller[t].ret.val = {}

\* the response is one handle_response_errors may raise on: not 200, a
\* JSON object, a code of the catalog
Recognized(r) ==
    /\ r.status # StatusOK
    /\ r.body.json = "object"
    /\ BodyCode(r.body) \in DOMAIN error_codes

\* C12: an answered make_request call ends in an exception only if the
\* response is recognized (status not 200, JSON object, code in the
\* catalog); on every other response it returns the line-parsed mapping
ApiErrorOnlyOnRecognized ==
    \A t \in Callers :
       Answered(t) =>
          /\ caller[t].exc # NoExc => Recognized(caller[t].opResp)
          /\ ~Recognized(caller[t].opResp)
               => /\ caller[t].exc = NoExc
                  /\ caller[t].ret.kind = "dict"
                  /\ caller[t].ret.val = MappingOf(caller[t].opResp.body.text)

\* a 400 whose body is not JSON came back as its line-parsed mapping
ApiErrorOnlyOnRecognizedWitness ==
    \E t \in Callers :
       /\ Answered(t) /\ caller[t].opResp = [status |-> 400, body |-> BodyLines]
       /\ caller[t].exc = NoExc
       /\ caller[t].ret.val = MappingOf(BodyLines.text)
       /\ DOMAIN caller[t].ret.val = {<<"a">>}

\* the most recent login attempt was made by this call and failed
LoginFailedHere(t) ==
    caller[t].pc = "done" /\ hist[t].nauth >= 1 /\ last_login.outcome = "failed"

\* C13: a make_request call whose login failed ends in an exception and has
\* sent no operation request; a make_request call dispatched after a failed
\* login attempts login itself before anything else, and an operation
\* request it sends carries the token of its own login
AuthFailurePerCall ==
    \A t \in Callers :
       InMakeRequest(t) =>
          /\ LoginFailedHere(t)
               => /\ caller[t].exc # NoExc
                  /\ caller[t].ret.kind = "none"
                  /\ hist[t].nops = 0
          /\ (hist[t].failed0 /\ caller[t].pc # "update_token")
               => /\ caller[t].pc = "login_send" \/ hist[t].nauth >= 1
                  /\ hist[t].nops > 0
                       => /\ hist[t].logins >= 1
                          /\ caller[t].hdr = Bearer(hist[t].loginTok)

\* the call after a failed refresh logged in again and sent its request on
\* the new token
AuthFailurePerCallWitness ==
    \E t \in Callers :
       /\ InMakeRequest(t) /\ hist[t].failed0 /\ ncalls = 2
       /\ caller[t].pc = "op_wait" /\ hist[t].nauth = 1
       /\ hist[t].token0 = "tokA" /\ caller[t].hdr = "Bearer tokB"

\* C15 as stated: up to the dispatch of the first operation no request has
\* been sent
LazyLogin == ncalls = 0 => sent = <<>>

\* C15: construction sends exactly one POST /auth/ and returns only after
\* that login stored a token and an expiry; an operation goes to login only
\* when its update_token found the token expired
EagerLogin ==
    /\ (constructed /\ ncalls = 0)
          => /\ sent = <<AuthRequest>>
             /\ last_login.outcome = "ok"
             /\ token_expiry = last_login.at + 57
    /\ \A t \in Callers :
          (caller[t].op \in Operations /\ caller[t].pc = "login_send")
             => now >= hist[t].seen

\* the client returned by __init__, before any operation
EagerLoginWitness ==
    /\ constructed /\ ncalls = 0
    /\ sent = <<AuthRequest>> /\ token = "tokA" /\ token_expiry = 57

\* no login is between its two assignments
NoLoginStoring == \A t \in Callers : caller[t].pc # "login_expiry"

\* C16: outside login's two assignments, token and token_expiry are both
\* absent or are the token returned by the most recent successful login and
\* the time of that login plus 57 minutes; only login's assignments change
\* them, the token first and the expiry in the login's next step
SessionInvariant ==
    /\ [](NoLoginStoring =>
            IF last_login.outcome = "none" \/ last_login.at = NoExpiry
            THEN token = None /\ token_expiry = NoExpiry
            ELSE token = last_login.tok /\ token_expiry = last_login.at + 57)
    /\ [][/\ (token' # token \/ token_expiry' # token_expiry)
               => \E t \in Callers :
                     /\ caller[t].pc \in {"login_resp", "login_expiry"}
                     /\ caller'[t].pc # caller[t].pc
          /\ \A t \in Callers :
                (caller[t].pc = "login_resp" /\ caller'[t].pc # caller[t].pc
                   /\ caller'[t].exc = NoExc)
                  => caller'[t].pc = "login_expiry"
          /\ \A t \in Callers :
                (caller[t].pc = "login_expiry" /\ caller'[t].pc # caller[t].pc)
                  => token_expiry' = now + 57 /\ token' = token]_vars

\* a refresh replaced the session of the constructor
SessionInvariantWitness ==
    /\ NoLoginStoring /\ constructed
    /\ last_login = [tok |-> "tokB", at |-> 58, outcome |-> "ok"]
    /\ token = "tokB" /\ token_expiry = 115

TokenText(tok) == IF tok = None THEN "None" ELSE tok

\* C18: set_headers builds x-auth-token as 'Bearer ' followed by the token
\* the session holds at that moment; every operation request on the wire
\* carries the header its call built, and an /auth/ request carries none
HeaderCarriesToken ==
    /\ [](\A i \in DOMAIN sent :
             IF sent[i].url = "/auth/"
             THEN sent[i].hdr = NoHeader
             ELSE \E t \in Callers :
                     /\ caller[t].op.endpoint = sent[i].url
                     /\ caller[t].hdr # NoHeader
                     /\ sent[i].hdr = caller[t].hdr)
    /\ [][\A t \in Callers :
             (caller[t].pc = "build_headers" /\ caller'[t].pc # caller[t].pc)
                => /\ caller'[t].hdr = "Bearer " \o TokenText(token)
                   /\ caller'[t].pc = "send"]_vars

\* a refreshed token on the wire behind the /auth/ request that fetched it
HeaderCarriesTokenWitness ==
    /\ Len(sent) = 2
    /\ sent[1] = [url |-> "/auth/", method |-> "POST", hdr |-> NoHeader]
    /\ sent[2] = [url |-> "/aggrement/GetAggrementDetail", method |-> "GET",
                  hdr |-> "Bearer tokB"]
    /\ token = "tokB" /\ ncalls = 2

\* GET or POST in any of the spellings the callers use
IsGetOrPost(m) == m \in {"GET", "get", "POST", "post"}

\* C19: a make_request call that got past its token refresh sends its
\* operation request when the method is GET or POST in either case;
\* with any other method it sends none and ends in UnboundLocalError, not
\* UnitedPaymentAPIException, after a refresh that an expired token required
UnsupportedMethod ==
    \A t \in Callers :
       (InMakeRequest(t) /\ caller[t].pc = "done" /\ caller[t].hdr # NoHeader)
          => IF IsGetOrPost(caller[t].op.method)
             THEN hist[t].nops = 1 /\ caller[t].exc.type # "UnboundLocalError"
             ELSE /\ hist[t].nops = 0
                  /\ caller[t].exc.type = "UnboundLocalError"
                  /\ caller[t].exc.type # "UnitedPaymentAPIException"
                  /\ caller[t].ret.kind = "none"
                  /\ ExpiredAtDispatch(t)
                       => /\ hist[t].logins >= 1
                          /\ token_expiry >= hist[t].start + 57

\* PUT on an expired token: the login went out and was stored, nothing else
UnsupportedMethodWitness ==
    \E t \in Callers :
       /\ InMakeRequest(t) /\ caller[t].pc = "done" /\ caller[t].op.method = "PUT"
       /\ ExpiredAtDispatch(t) /\ hist[t].logins = 1 /\ hist[t].nops = 0
       /\ hist[t].token0 = "tokA" /\ token = "tokB"
       /\ caller[t].exc.type = "UnboundLocalError"

(* ------------------- two callers on one client ----------------------- *)
\* the operations the concurrent callers use
ConcOperations == { o \in Operations : o.name = "reversal" }

\* the client __init__ built at minute 0, at the minute its token expires,
\* with no caller inside it
InitConc ==
    /\ token = "tokA"
    /\ token_expiry = TokenMinutes
    /\ now = TokenMinutes
    /\ sent = <<AuthRequest>>
    /\ constructed = TRUE
    /\ ncalls = 0
    /\ caller = [t \in Callers |-> IdleCaller]
    /\ hist = [t \in Callers |-> NoHist]
    /\ last_login = [tok |-> "tokA", at |-> 0, outcome |-> "ok"]

\* the steps of an operation, for any caller
OpStep(t) ==
    \/ LoginSend(t)
    \/ LoginRecv(t)
    \/ LoginTransportFail(t)
    \/ LoginHandle(t)
    \/ LoginExpiry(t)
    \/ \E o \in ConcOperations : Begin(t, o)
    \/ UpdateToken(t)
    \/ SetHeaders(t)
    \/ HdrUpdateToken(t)
    \/ BuildHeaders(t)
    \/ Send(t)
    \/ OpRecv(t)
    \/ OpTransportFail(t)
    \/ OpHandle(t)
    \/ Return(t)

\* callers on several threads: their steps interleave freely; the clock
\* stays at the minute of the expiry
NextConc == \E t \in Callers : OpStep(t)

SpecConc == InitConc /\ [][NextConc]_vars

\* a caller is inside login
InLogin(t) ==
    caller[t].pc \in {"login_send", "login_wait", "login_resp", "login_expiry"}

\* C14: nothing but a caller's own reading of token_expiry stands between
\* it and login: whoever is inside login read an expiry that had passed,
\* whatever the other caller has done since
NonAtomicRefresh ==
    \A t \in Callers :
       InLogin(t) => /\ hist[t].seen # NoExpiry
                     /\ now >= hist[t].seen
                     /\ hist[t].nauth <= 1

\* both callers read the same expired token_expiry before either login
\* came back, and both /auth/ requests are on the wire
NonAtomicRefreshWitness ==
    /\ \A t \in Callers :
          /\ InMakeRequest(t) /\ caller[t].pc = "login_wait"
          /\ hist[t].seen = token_expiry /\ hist[t].nauth = 1
    /\ token_expiry = TokenMinutes /\ now >= token_expiry
    /\ last_login.at = 0 /\ last_login.outcome = "ok"
    /\ sent = <<AuthRequest, AuthRequest, AuthRequest>>

====
